---- MODULE Spec2Model ----
(***************************************************************************)
(* Model of ingest-car-data/main.py: one invocation of main(event,         *)
(* context).  The run resolves the secret references of config.json,       *)
(* builds the connectivity client, fetches the fleet, flattens every       *)
(* vehicle into a row and submits the rows to BigQuery in one call.        *)
(*                                                                         *)
(* Python values are modelled as follows.  A str is a sequence of          *)
(* one-character strings; bytes are a sequence of byte values; None is     *)
(* the empty tuple and a present object x is <<x>> where a value may be    *)
(* absent.  A JSON value of the configuration is a record [isstr, s].      *)
(***************************************************************************)
EXTENDS Integers, Sequences, FiniteSets, TLC

\* ------------------------------------------------------------------------
\* Bounds of the model
\* ------------------------------------------------------------------------
MaxConnectors == 2
MaxVehicles == 2
MaxClock == 2

\* ------------------------------------------------------------------------
\* Python values
\* ------------------------------------------------------------------------
None == <<>>
Some(x) == <<x>>
Get(o) == o[1]

Str(s) == [isstr |-> TRUE, s |-> s]
NonStr(s) == [isstr |-> FALSE, s |-> s]

\* str.startswith
StartsWith(s, p) == Len(s) >= Len(p) /\ SubSeq(s, 1, Len(p)) = p

\* str.split(sep, 1): at most one split, at the first separator
SplitOnce(s, sep) ==
    LET at == {i \in 1..Len(s) : s[i] = sep} IN
    IF at = {} THEN <<s>>
    ELSE LET i == CHOOSE k \in at : \A j \in at : k <= j
         IN <<SubSeq(s, 1, i - 1), SubSeq(s, i + 1, Len(s))>>

Whitespace == {" ", "\n", "\t"}

\* str.strip(): drops leading and trailing whitespace, keeps inner whitespace
Strip(s) ==
    LET keep == {i \in 1..Len(s) : s[i] \notin Whitespace} IN
    IF keep = {} THEN <<>>
    ELSE LET lo == CHOOSE k \in keep : \A j \in keep : k <= j
             hi == CHOOSE k \in keep : \A j \in keep : k >= j
         IN SubSeq(s, lo, hi)

\* bytes.decode("UTF-8") on the ASCII payloads of the model
Chr(b) ==
    CASE b = 9 -> "\t"
      [] b = 10 -> "\n"
      [] b = 32 -> " "
      [] b = 58 -> ":"
      [] b = 67 -> "C"
      [] b = 69 -> "E"
      [] b = 82 -> "R"
      [] b = 83 -> "S"
      [] b = 84 -> "T"
      [] b = 97 -> "a"
      [] b = 112 -> "p"

Decode(data) == [i \in 1..Len(data) |-> Chr(data[i])]

\* ------------------------------------------------------------------------
\* Project configuration (module level of main.py)
\* ------------------------------------------------------------------------
PROJECT_ID == "GCP_PROJECT"
BIGQUERY_DATASET == "car_data"
BIGQUERY_TABLE == "vehicle_status"

SECRET_PREFIX == <<"S", "E", "C", "R", "E", "T", ":">>

\* ------------------------------------------------------------------------
\* Inputs: the configuration document on disk and the secret store
\* ------------------------------------------------------------------------
\* connector settings values: a literal, a number and two references (the id
\* of the second contains the separator)
ConfigValues ==
    { Str(<<"p">>),
      NonStr(<<"5">>),
      Str(SECRET_PREFIX \o <<"a">>),
      Str(SECRET_PREFIX \o <<"a", ":", "b">>) }

Item(k, v) == [key |-> k, value |-> v]

\* a settings mapping is the sequence of its items in insertion order
ConfigMappings ==
    {<<>>}
    \cup {<<Item("username", v)>> : v \in ConfigValues}
    \cup {<<Item("password", v)>> : v \in ConfigValues}
    \cup {<<Item("username", v), Item("password", w)>> :
              v \in ConfigValues, w \in ConfigValues}

Connectors ==
    {[has_config |-> FALSE, config |-> <<>>]}
    \cup {[has_config |-> TRUE, config |-> m] : m \in ConfigMappings}

SeqUpTo(S, n) == UNION {[1..k -> S] : k \in 0..n}

Document(hasCC, hasConn, conns) ==
    [has_carConnectivity |-> hasCC, has_connectors |-> hasConn, connectors |-> conns]

ConfigDocuments ==
    {Document(FALSE, FALSE, <<>>), Document(TRUE, FALSE, <<>>)}
    \cup {Document(TRUE, TRUE, cs) : cs \in SeqUpTo(Connectors, MaxConnectors)}

\* config.json as found by open()/json.load(): absent, or a document
Files == {None} \cup {Some(d) : d \in ConfigDocuments}

\* the documents used when the whole of main is explored
MainValues ==
    { Str(<<"p">>),
      Str(SECRET_PREFIX \o <<"a">>),
      Str(SECRET_PREFIX \o <<"a", ":", "b">>) }

MainDocuments ==
    {Document(FALSE, FALSE, <<>>)}
    \cup {Document(TRUE, TRUE,
              <<[has_config |-> TRUE,
                 config |-> <<Item("username", v), Item("password", w)>>]>>) :
              v \in MainValues, w \in MainValues}

MainFiles == {None} \cup {Some(d) : d \in MainDocuments}

SecretIds == {<<"a">>, <<"a", ":", "b">>}

\* payload bytes of a secret version: " p\n" and "SECRET:a"
Payloads ==
    { <<32, 112, 10>>,
      <<83, 69, 67, 82, 69, 84, 58, 97>> }

\* a secret is unavailable (the access call raises) or has a payload
SecretStores == [SecretIds -> {None} \cup {Some(p) : p \in Payloads}]


\* ------------------------------------------------------------------------
\* Inputs: the vehicle snapshots the connectivity client lists
\* ------------------------------------------------------------------------
Charging == [power |-> 11, type |-> "ac", state |-> "charging"]
Position == [latitude |-> 52, longitude |-> 13]

\* outside_temperature is in hundredths of a kelvin
Vehicle(vin, odometer, edrive, charging, position) ==
    [vin |-> Some(vin), odometer |-> odometer, edrive |-> edrive,
     charging |-> charging, connection_state |-> Some("online"),
     outside_temperature |-> Some(30000), position |-> position,
     state |-> Some("parked")]

\* the optional sub-objects in every combination, and two snapshots that
\* lack a non-optional sub-object
VehicleSnapshots ==
    { Vehicle("VIN1", Some(100), Some(80), Some(Charging), Some(Position)),
      Vehicle("VIN2", Some(200), None, Some(Charging), None),
      Vehicle("VIN3", Some(300), Some(60), Some(Charging), None),
      Vehicle("VIN4", Some(400), None, Some(Charging), Some(Position)),
      Vehicle("VIN5", Some(500), Some(70), None, Some(Position)),
      Vehicle("VIN6", None, None, Some(Charging), None) }

VehicleLists == SeqUpTo(VehicleSnapshots, MaxVehicles)

\* what the connectivity client raises
ConstructErrors == {[type |-> "ConfigurationError", text |-> "bad connector"]}
FetchErrors == {[type |-> "AuthenticationError", text |-> "login failed"],
                [type |-> "RetrievalError", text |-> "timeout"]}

VARIABLES
    pc,             \* position of main
    fs,             \* config.json
    secrets,        \* the secret store
    config,         \* the document being resolved (None before json.load)
    ci,             \* index of the connector being visited
    ki,             \* index of the settings item being visited
    secret_calls,   \* access_secret_version calls: [name, ok]
    exc,            \* the exception in flight or raised (None if none)
    cc,             \* the connectivity client (None before construction)
    fetch_calls,    \* number of cc.fetch_all() calls
    garage,         \* "unset", "None" or "garage"
    vehicles,       \* None before list_vehicles, then Some(list)
    clock,          \* the wall clock
    ingestion_time, \* None before line 84, then Some(time)
    vi,             \* index of the vehicle being visited
    rows_to_insert,
    store_calls,    \* insert_rows_json calls: [table_id, rows, errors]
    log,            \* lines printed
    outcome         \* "running", "returned" or "raised"

vars == <<pc, fs, secrets, config, ci, ki, secret_calls, exc, cc, fetch_calls,
          garage, vehicles, clock, ingestion_time, vi, rows_to_insert,
          store_calls, log, outcome>>

resolverVars == <<config, ci, ki, secret_calls>>
pipelineVars == <<cc, fetch_calls, garage, vehicles, clock, ingestion_time, vi,
                  rows_to_insert, store_calls>>

Exception(type, text, site) == [type |-> type, text |-> text, site |-> site]

\* print("...") and print(json.dumps(dict(severity="ERROR", ...)))
Plain(message) == [severity |-> "DEFAULT", message |-> message]

\* ------------------------------------------------------------------------
\* _get_secret
\* ------------------------------------------------------------------------
SecretName(secret_id) ==
    <<"projects", PROJECT_ID, "secrets", secret_id, "versions", "latest">>

\* secret_client.access_secret_version: the payload, or None when it raises
AccessSecretVersion(store, name) ==
    IF name[4] \in DOMAIN store THEN store[name[4]] ELSE None

\* variant: a failed access is swallowed and the empty string returned
GetSecret_Swallow(store, secret_id) ==
    LET response == AccessSecretVersion(store, SecretName(secret_id)) IN
    IF response = None
    THEN [ok |-> TRUE, value |-> <<>>]
    ELSE [ok |-> TRUE, value |-> Strip(Decode(Get(response)))]

\* _get_secret: [ok, value]; ok = FALSE stands for the propagated exception
GetSecret(store, secret_id) ==
    LET response == AccessSecretVersion(store, SecretName(secret_id)) IN
    IF response = None
    THEN [ok |-> FALSE, value |-> <<>>]
    ELSE [ok |-> TRUE, value |-> Strip(Decode(Get(response)))]

\* ------------------------------------------------------------------------
\* _build_config_with_secrets
\* ------------------------------------------------------------------------
IsSecretReference(value) == value.isstr /\ StartsWith(value.s, SECRET_PREFIX)

\* variant: value.split(":")[1], every separator splits
SecretId_SplitAll(value) == SplitOnce(SplitOnce(value.s, ":")[2], ":")[1]

SecretId(value) == SplitOnce(value.s, ":")[2]

\* variant: the assignment of line 33 is lost
SetItem_Lost(mapping, key, secret) == mapping

\* connector['config'][key] = retrieved_secret
SetItem(mapping, key, secret) ==
    [i \in 1..Len(mapping) |->
        IF mapping[i].key = key THEN Item(key, Str(secret)) ELSE mapping[i]]

\* with open(config_path) ...: json.load(f); then the test of line 26
LoadConfig ==
    /\ pc = "load"
    /\ IF fs = None
       THEN /\ exc' = Some(Exception("FileNotFoundError", "config.json", "load"))
            /\ pc' = "except"
            /\ UNCHANGED <<config, ci>>
       ELSE /\ config' = fs
            /\ ci' = 1
            /\ pc' = IF Get(fs).has_carConnectivity /\ Get(fs).has_connectors
                     THEN "connector" ELSE "resolved"
            /\ UNCHANGED exc
    /\ UNCHANGED <<fs, secrets, ki, secret_calls, log, outcome>>
    /\ UNCHANGED pipelineVars

\* for connector in ...: if 'config' in connector: (start of the inner loop)
NextConnector ==
    /\ pc = "connector"
    /\ LET connectors == Get(config).connectors IN
       IF ci > Len(connectors)
       THEN pc' = "resolved" /\ UNCHANGED <<ci, ki>>
       ELSE IF connectors[ci].has_config /\ connectors[ci].config # <<>>
            THEN pc' = "item" /\ ki' = 1 /\ UNCHANGED ci
            ELSE pc' = "connector" /\ ci' = ci + 1 /\ UNCHANGED ki
    /\ UNCHANGED <<fs, secrets, config, secret_calls, exc, log, outcome>>
    /\ UNCHANGED pipelineVars

\* one (key, value) of connector['config'].items(): lines 30-33
ResolveItem ==
    /\ pc = "item"
    /\ LET mapping == Get(config).connectors[ci].config
           key == mapping[ki].key
           value == mapping[ki].value
           advance == IF ki < Len(mapping)
                      THEN pc' = "item" /\ ki' = ki + 1 /\ UNCHANGED ci
                      ELSE pc' = "connector" /\ ci' = ci + 1 /\ UNCHANGED ki
       IN
       IF IsSecretReference(value)
       THEN LET secret_id == SecretId(value)
                retrieved_secret == GetSecret(secrets, secret_id)
            IN /\ secret_calls' = Append(secret_calls,
                      [name |-> SecretName(secret_id),
                       ok |-> AccessSecretVersion(secrets, SecretName(secret_id)) # None])
               /\ IF retrieved_secret.ok
                  THEN /\ config' = Some([Get(config) EXCEPT
                               !.connectors[ci].config =
                                   SetItem(mapping, key, retrieved_secret.value)])
                       /\ advance
                       /\ UNCHANGED exc
                  ELSE /\ exc' = Some(Exception("NotFound", secret_id, "get_secret"))
                       /\ pc' = "except"
                       /\ UNCHANGED <<config, ci, ki>>
       ELSE /\ advance
            /\ UNCHANGED <<config, secret_calls, exc>>
    /\ UNCHANGED <<fs, secrets, log, outcome>>
    /\ UNCHANGED pipelineVars

\* ------------------------------------------------------------------------
\* main, lines 51-82: initialization and fleet fetch
\* ------------------------------------------------------------------------
\* config = <returned document>; print(...); cc = CarConnectivity(config=config)
Construct ==
    /\ pc = "resolved"
    /\ log' = Append(log, Plain("Initializing CarConnectivity with dynamic config..."))
    /\ \/ /\ cc' = Some([config |-> Get(config)])
          /\ pc' = "fetch_all"
          /\ UNCHANGED exc
       \/ \E e \in ConstructErrors :
             /\ exc' = Some(Exception(e.type, e.text, "construct"))
             /\ pc' = "except"
             /\ UNCHANGED cc
    /\ UNCHANGED <<fs, secrets, outcome>>
    /\ UNCHANGED resolverVars
    /\ UNCHANGED <<fetch_calls, garage, vehicles, clock, ingestion_time, vi,
                   rows_to_insert, store_calls>>

\* cc.fetch_all()
FetchAll ==
    /\ pc = "fetch_all"
    /\ fetch_calls' = fetch_calls + 1
    /\ \/ pc' = "get_garage" /\ UNCHANGED exc
       \/ \E e \in FetchErrors :
             /\ exc' = Some(Exception(e.type, e.text, "fetch_all"))
             /\ pc' = "except"
    /\ UNCHANGED <<fs, secrets, log, outcome>>
    /\ UNCHANGED resolverVars
    /\ UNCHANGED <<cc, garage, vehicles, clock, ingestion_time, vi,
                   rows_to_insert, store_calls>>

\* garage = cc.get_garage(); if not garage: print(...); return
GetGarage ==
    /\ pc = "get_garage"
    /\ \E g \in {"None", "garage"} :
          /\ garage' = g
          /\ IF g = "None"
             THEN /\ log' = Append(log,
                        Plain("Successfully connected, but no garage object was returned."))
                  /\ outcome' = "returned"
                  /\ pc' = "done"
             ELSE /\ pc' = "list_vehicles"
                  /\ UNCHANGED <<log, outcome>>
    /\ UNCHANGED <<fs, secrets, exc>>
    /\ UNCHANGED resolverVars
    /\ UNCHANGED <<cc, fetch_calls, vehicles, clock, ingestion_time, vi,
                   rows_to_insert, store_calls>>

\* variant: the test of line 69 is missing
ListVehicles_NoShortCircuit ==
    /\ pc = "list_vehicles"
    /\ \E vs \in VehicleLists :
          /\ vehicles' = Some(vs)
          /\ log' = Append(log,
                [severity |-> "DEFAULT",
                 message |-> "Found vehicle VIN(s). Fetching full data for each.",
                 count |-> Len(vs)])
          /\ pc' = "ingestion_time"
          /\ UNCHANGED outcome
    /\ UNCHANGED <<fs, secrets, exc>>
    /\ UNCHANGED resolverVars
    /\ UNCHANGED <<cc, fetch_calls, garage, clock, ingestion_time, vi,
                   rows_to_insert, store_calls>>

\* vehicles = garage.list_vehicles(); if not vehicles: print(...); return;
\* print(f"Found {len(vehicles)} vehicle VIN(s). ...")
ListVehicles ==
    /\ pc = "list_vehicles"
    /\ \E vs \in VehicleLists :
          /\ vehicles' = Some(vs)
          /\ IF vs = <<>>
             THEN /\ log' = Append(log,
                        Plain("Garage retrieved, but it contains no vehicles."))
                  /\ outcome' = "returned"
                  /\ pc' = "done"
             ELSE /\ log' = Append(log,
                        [severity |-> "DEFAULT",
                         message |-> "Found vehicle VIN(s). Fetching full data for each.",
                         count |-> Len(vs)])
                  /\ pc' = "ingestion_time"
                  /\ UNCHANGED outcome
    /\ UNCHANGED <<fs, secrets, exc>>
    /\ UNCHANGED resolverVars
    /\ UNCHANGED <<cc, fetch_calls, garage, clock, ingestion_time, vi,
                   rows_to_insert, store_calls>>

\* the payload of lines 76-80 with severity="ERROR"
InitializationError(e) ==
    [severity |-> "ERROR",
     message |-> "Failed during initialization or data fetch",
     exception_type |-> e.type,
     error |-> e.text]

\* variant: the handler logs and returns, the raise of line 82 is missing
HandleException_Swallow ==
    /\ pc = "except"
    /\ log' = Append(log, InitializationError(Get(exc)))
    /\ outcome' = "returned"
    /\ pc' = "done"
    /\ UNCHANGED <<fs, secrets, exc>>
    /\ UNCHANGED resolverVars
    /\ UNCHANGED pipelineVars

\* except Exception as e: print(json.dumps(...)); raise e
HandleException ==
    /\ pc = "except"
    /\ log' = Append(log, InitializationError(Get(exc)))
    /\ outcome' = "raised"
    /\ pc' = "done"
    /\ UNCHANGED <<fs, secrets, exc>>
    /\ UNCHANGED resolverVars
    /\ UNCHANGED pipelineVars

\* ------------------------------------------------------------------------
\* main, lines 84-110: rows and the batch write
\* ------------------------------------------------------------------------
\* datetime.isoformat(): the text of the time
IsoFormat(t) == [iso |-> t]

\* the clock advances while the run is between line 84 and the batch write;
\* it is not read anywhere else
Tick ==
    /\ pc \in {"ingestion_time", "loop"}
    /\ clock < MaxClock
    /\ clock' = clock + 1
    /\ UNCHANGED <<pc, fs, secrets, exc, log, outcome>>
    /\ UNCHANGED resolverVars
    /\ UNCHANGED <<cc, fetch_calls, garage, vehicles, ingestion_time, vi,
                   rows_to_insert, store_calls>>

\* ingestion_time = datetime.datetime.now(datetime.timezone.utc); rows_to_insert = []
RecordIngestionTime ==
    /\ pc = "ingestion_time"
    /\ ingestion_time' = Some(clock)
    /\ rows_to_insert' = <<>>
    /\ vi' = 1
    /\ pc' = "loop"
    /\ UNCHANGED <<fs, secrets, exc, log, outcome>>
    /\ UNCHANGED resolverVars
    /\ UNCHANGED <<cc, fetch_calls, garage, vehicles, clock, store_calls>>

\* 273.15 in hundredths
KELVIN_OFFSET == 27315

\* the attributes main reads without a guard, in the order it reads them
RequiredAttributes ==
    <<"vin", "odometer", "charging", "connection_state", "outside_temperature", "state">>

\* the first unguarded attribute the snapshot lacks, "" if it has them all
MissingAttribute(vehicle) ==
    LET miss == {i \in 1..Len(RequiredAttributes) : vehicle[RequiredAttributes[i]] = None} IN
    IF miss = {} THEN ""
    ELSE RequiredAttributes[CHOOSE i \in miss : \A j \in miss : i <= j]

\* variant: soc defaults to 0
Soc_Zero(vehicle) == IF vehicle.edrive # None THEN Some(Get(vehicle.edrive)) ELSE Some(0)

\* soc = edrive.level.value if edrive else None
Soc(vehicle) == IF vehicle.edrive # None THEN Some(Get(vehicle.edrive)) ELSE None

Latitude(vehicle) ==
    IF vehicle.position # None THEN Some(Get(vehicle.position).latitude) ELSE None

Longitude(vehicle) ==
    IF vehicle.position # None THEN Some(Get(vehicle.position).longitude) ELSE None

\* variant: the clock is read again for every row
Row_Now(vehicle, soc, time) ==
    [ingestion_timestamp |-> IsoFormat(clock),
     vehicle_id |-> Get(vehicle.vin),
     mileage |-> Get(vehicle.odometer),
     soc |-> soc,
     charging_power |-> Get(vehicle.charging).power,
     charging_type |-> Get(vehicle.charging).type,
     is_charging |-> Get(vehicle.charging).state,
     is_online |-> Get(vehicle.connection_state),
     external_temperature |-> Get(vehicle.outside_temperature) - KELVIN_OFFSET,
     latitude |-> Latitude(vehicle),
     longitude |-> Longitude(vehicle),
     state |-> Get(vehicle.state)]

\* the dict of lines 94-107
Row(vehicle, soc, time) ==
    [ingestion_timestamp |-> IsoFormat(time),
     vehicle_id |-> Get(vehicle.vin),
     mileage |-> Get(vehicle.odometer),
     soc |-> soc,
     charging_power |-> Get(vehicle.charging).power,
     charging_type |-> Get(vehicle.charging).type,
     is_charging |-> Get(vehicle.charging).state,
     is_online |-> Get(vehicle.connection_state),
     external_temperature |-> Get(vehicle.outside_temperature) - KELVIN_OFFSET,
     latitude |-> Latitude(vehicle),
     longitude |-> Longitude(vehicle),
     state |-> Get(vehicle.state)]

\* if vehicle: a snapshot object is truthy
Truthy(vehicle) == vehicle # None

\* variant: rows_to_insert.insert(0, row)
AppendRow_Front(rows, row) == <<row>> \o rows

\* rows_to_insert.append(row)
AppendRow(rows, row) == Append(rows, row)

\* variant: a snapshot that lacks an attribute is skipped
BuildRow_Skip ==
    /\ pc = "loop"
    /\ vi <= Len(Get(vehicles))
    /\ LET vehicle == Get(vehicles)[vi]
           soc == Soc(vehicle)
       IN
       /\ rows_to_insert' =
              IF Truthy(vehicle) /\ MissingAttribute(vehicle) = ""
              THEN AppendRow(rows_to_insert, Row(vehicle, soc, Get(ingestion_time)))
              ELSE rows_to_insert
       /\ vi' = vi + 1
       /\ UNCHANGED <<pc, exc, outcome>>
    /\ UNCHANGED <<fs, secrets, log>>
    /\ UNCHANGED resolverVars
    /\ UNCHANGED <<cc, fetch_calls, garage, vehicles, clock, ingestion_time, store_calls>>

\* one iteration of the loop of line 88; an AttributeError leaves main
BuildRow ==
    /\ pc = "loop"
    /\ vi <= Len(Get(vehicles))
    /\ LET vehicle == Get(vehicles)[vi]
           soc == Soc(vehicle)
       IN
       IF Truthy(vehicle) /\ MissingAttribute(vehicle) # ""
       THEN /\ exc' = Some(Exception("AttributeError", MissingAttribute(vehicle), "loop"))
            /\ outcome' = "raised"
            /\ pc' = "done"
            /\ UNCHANGED <<vi, rows_to_insert>>
       ELSE /\ rows_to_insert' =
                   IF Truthy(vehicle)
                   THEN AppendRow(rows_to_insert, Row(vehicle, soc, Get(ingestion_time)))
                   ELSE rows_to_insert
            /\ vi' = vi + 1
            /\ UNCHANGED <<pc, exc, outcome>>
    /\ UNCHANGED <<fs, secrets, log>>
    /\ UNCHANGED resolverVars
    /\ UNCHANGED <<cc, fetch_calls, garage, vehicles, clock, ingestion_time, store_calls>>

TableId == <<PROJECT_ID, BIGQUERY_DATASET, BIGQUERY_TABLE>>

\* the list of row errors the store returns for the rows in `failed`
RowErrors(failed) ==
    LET RECURSIVE Sorted(_)
        Sorted(S) == IF S = {} THEN <<>>
                     ELSE LET m == CHOOSE x \in S : \A y \in S : x <= y
                          IN <<[index |-> m - 1, errors |-> "invalid"]>> \o Sorted(S \ {m})
    IN Sorted(failed)

\* variant: row errors are logged and then raised
InsertIntoBigquery_Raise ==
    /\ pc = "loop"
    /\ vi > Len(Get(vehicles))
    /\ rows_to_insert # <<>>
    /\ \E failed \in SUBSET (1..Len(rows_to_insert)) :
          LET errors == RowErrors(failed) IN
          /\ store_calls' = Append(store_calls,
                 [table_id |-> TableId, rows |-> rows_to_insert, errors |-> errors])
          /\ log' = Append(log,
                 IF errors = <<>>
                 THEN [severity |-> "DEFAULT",
                       message |-> "Successfully loaded rows",
                       count |-> Len(rows_to_insert),
                       table_id |-> TableId]
                 ELSE [severity |-> "ERROR",
                       message |-> "BigQuery insert errors",
                       errors |-> errors])
          /\ outcome' = IF errors = <<>> THEN "returned" ELSE "raised"
    /\ pc' = "done"
    /\ UNCHANGED <<fs, secrets, exc>>
    /\ UNCHANGED resolverVars
    /\ UNCHANGED <<cc, fetch_calls, garage, vehicles, clock, ingestion_time, vi,
                   rows_to_insert>>

\* _insert_into_bigquery(rows_to_insert), after the loop
InsertIntoBigquery ==
    /\ pc = "loop"
    /\ vi > Len(Get(vehicles))
    /\ IF rows_to_insert = <<>>
       THEN /\ log' = Append(log, Plain("No rows to insert."))
            /\ UNCHANGED store_calls
       ELSE \E failed \in SUBSET (1..Len(rows_to_insert)) :
               LET errors == RowErrors(failed) IN
               /\ store_calls' = Append(store_calls,
                      [table_id |-> TableId, rows |-> rows_to_insert, errors |-> errors])
               /\ log' = Append(log,
                      IF errors = <<>>
                      THEN [severity |-> "DEFAULT",
                            message |-> "Successfully loaded rows",
                            count |-> Len(rows_to_insert),
                            table_id |-> TableId]
                      ELSE [severity |-> "ERROR",
                            message |-> "BigQuery insert errors",
                            errors |-> errors])
    /\ outcome' = "returned"
    /\ pc' = "done"
    /\ UNCHANGED <<fs, secrets, exc>>
    /\ UNCHANGED resolverVars
    /\ UNCHANGED <<cc, fetch_calls, garage, vehicles, clock, ingestion_time, vi,
                   rows_to_insert>>

\* ------------------------------------------------------------------------
\* Specifications
\* ------------------------------------------------------------------------
InitWith(files) ==
    /\ pc = "load"
    /\ fs \in files
    /\ secrets \in SecretStores
    /\ config = None
    /\ ci = 0
    /\ ki = 0
    /\ secret_calls = <<>>
    /\ exc = None
    /\ cc = None
    /\ fetch_calls = 0
    /\ garage = "unset"
    /\ vehicles = None
    /\ clock = 0
    /\ ingestion_time = None
    /\ vi = 0
    /\ rows_to_insert = <<>>
    /\ store_calls = <<>>
    /\ log = <<>>
    /\ outcome = "running"

\* one invocation of main
Init == InitWith(MainFiles)

Next ==
    \/ LoadConfig
    \/ NextConnector
    \/ ResolveItem
    \/ Construct
    \/ FetchAll
    \/ GetGarage
    \/ ListVehicles
    \/ HandleException
    \/ Tick
    \/ RecordIngestionTime
    \/ BuildRow
    \/ InsertIntoBigquery

Spec == Init /\ [][Next]_vars

\* the call of _build_config_with_secrets at line 52, over every document
InitResolver == InitWith(Files)

NextResolver == LoadConfig \/ NextConnector \/ ResolveItem \/ HandleException

SpecResolver == InitResolver /\ [][NextResolver]_vars

\* ------------------------------------------------------------------------
\* Properties
\* ------------------------------------------------------------------------
ErrorRecords == {i \in DOMAIN log : log[i].severity = "ERROR"}

Listed == IF vehicles = None THEN <<>> ELSE Get(vehicles)

\* C1: when insert_rows_json returns a non-empty list of row errors, main
\* returns without raising, the log holds exactly one ERROR record and it
\* carries that list, and the store was called exactly once.
BestEffortWrite ==
    \A c \in DOMAIN store_calls :
        store_calls[c].errors # <<>> =>
            /\ pc = "done"
            /\ outcome = "returned"
            /\ exc = None
            /\ Len(store_calls) = 1
            /\ Cardinality(ErrorRecords) = 1
            /\ \A j \in ErrorRecords :
                  /\ log[j].message = "BigQuery insert errors"
                  /\ log[j].errors = store_calls[c].errors

\* two rows submitted, the store rejects one of them
BestEffortWriteWitness ==
    /\ pc = "done"
    /\ Len(store_calls) = 1
    /\ Len(store_calls[1].rows) = 2
    /\ Len(store_calls[1].errors) = 1

FailedFetch == \E i \in DOMAIN secret_calls : ~secret_calls[i].ok

\* C2: once the fetch of a referenced secret has failed, resolution never
\* returns: the client is never constructed, the fleet is never fetched, no
\* row is built, the store is never called, and main ends by raising.
ResolutionFailsClosed ==
    FailedFetch =>
        /\ pc \in {"except", "done"}
        /\ cc = None
        /\ fetch_calls = 0
        /\ rows_to_insert = <<>>
        /\ store_calls = <<>>
        /\ outcome # "returned"
        /\ pc = "done" => outcome = "raised"

\* the first reference resolved, the last one failed, main has raised
ResolutionFailsClosedWitness ==
    /\ pc = "done"
    /\ Len(secret_calls) = 2
    /\ secret_calls[1].ok
    /\ ~secret_calls[2].ok

InitializationFailed ==
    exc # None /\ Get(exc).site \in {"construct", "fetch_all"}

\* C3: when the client construction or fetch_all raises, main logs exactly
\* one ERROR record with the message, the exception's type name and its text,
\* and re-raises; no row is built and the store is never called.
InitializationFailureIsLoud ==
    InitializationFailed =>
        /\ pc \in {"except", "done"}
        /\ vehicles = None
        /\ rows_to_insert = <<>>
        /\ store_calls = <<>>
        /\ pc = "except" => ErrorRecords = {} /\ outcome = "running"
        /\ pc = "done" =>
              /\ outcome = "raised"
              /\ ErrorRecords = {Len(log)}
              /\ log[Len(log)] =
                    [severity |-> "ERROR",
                     message |-> "Failed during initialization or data fetch",
                     exception_type |-> Get(exc).type,
                     error |-> Get(exc).text]

\* fetch_all raised a RetrievalError and main has finished
InitializationFailureWitness ==
    /\ pc = "done"
    /\ exc # None
    /\ Get(exc).site = "fetch_all"
    /\ Get(exc).type = "RetrievalError"
    /\ fetch_calls = 1

\* C4: the batch handed to the store has one row per listed vehicle, and the
\* i-th row carries the VIN of the i-th listed vehicle.
RowCountAndOrder ==
    \A c \in DOMAIN store_calls :
        LET rows == store_calls[c].rows IN
        /\ Len(rows) = Len(Listed)
        /\ \A i \in DOMAIN rows : Some(rows[i].vehicle_id) = Listed[i].vin

\* a batch of two rows for two different vehicles was submitted
RowCountAndOrderWitness ==
    /\ store_calls # <<>>
    /\ Len(Listed) = 2
    /\ Listed[1].vin # Listed[2].vin

LacksRequired(vehicle) ==
    \/ vehicle.vin = None
    \/ vehicle.odometer = None
    \/ vehicle.charging = None
    \/ vehicle.connection_state = None
    \/ vehicle.outside_temperature = None
    \/ vehicle.state = None

\* C5: when some listed vehicle lacks a non-optional sub-object, the store is
\* never called and main ends by raising the error of the loop.
NoPartialSalvage ==
    (\E i \in DOMAIN Listed : LacksRequired(Listed[i])) =>
        /\ store_calls = <<>>
        /\ outcome # "returned"
        /\ pc = "done" =>
              /\ outcome = "raised"
              /\ Get(exc).site = "loop"
              /\ ErrorRecords = {}

\* the last of two vehicles lacks a sub-object: the row of the first one was
\* built and is dropped
NoPartialSalvageWitness ==
    /\ pc = "done"
    /\ outcome = "raised"
    /\ Len(Listed) = 2
    /\ Len(rows_to_insert) = 1
    /\ LacksRequired(Listed[2])

\* C6: when get_garage returns no garage or list_vehicles returns an empty
\* list, main returns without raising, its last log line is the informational
\* message of that case, no ERROR record is logged, no row is built and the
\* store is never called.
ZeroRowShortCircuits ==
    /\ garage = "None" =>
          /\ pc = "done"
          /\ outcome = "returned"
          /\ log[Len(log)] =
                Plain("Successfully connected, but no garage object was returned.")
          /\ vehicles = None
    /\ vehicles = Some(<<>>) =>
          /\ pc = "done"
          /\ outcome = "returned"
          /\ log[Len(log)] = Plain("Garage retrieved, but it contains no vehicles.")
    /\ (garage = "None" \/ vehicles = Some(<<>>)) =>
          /\ fetch_calls = 1
          /\ exc = None
          /\ ErrorRecords = {}
          /\ ingestion_time = None
          /\ rows_to_insert = <<>>
          /\ store_calls = <<>>

\* list_vehicles returned an empty list and main has returned
ZeroRowShortCircuitsWitness ==
    /\ pc = "done"
    /\ garage = "garage"
    /\ vehicles = Some(<<>>)

\* the settings values of a document, as <<connector, item>> positions
Positions(doc) ==
    UNION {{<<c, k>> : k \in DOMAIN doc.connectors[c].config} :
               c \in DOMAIN doc.connectors}

ValueAt(doc, p) == doc.connectors[p[1]].config[p[2]].value

\* the identifier of a reference: what follows the prefix
ReferenceId(value) == SubSeq(value.s, Len(SECRET_PREFIX) + 1, Len(value.s))

\* t is s without its leading and trailing whitespace
IsTrimOf(t, s) ==
    /\ \E i \in 0..Len(s), j \in 0..Len(s) :
          /\ i + j <= Len(s)
          /\ t = SubSeq(s, i + 1, Len(s) - j)
          /\ \A k \in 1..i : s[k] \in Whitespace
          /\ \A k \in (Len(s) - j + 1)..Len(s) : s[k] \in Whitespace
    /\ t # <<>> => t[1] \notin Whitespace /\ t[Len(t)] \notin Whitespace

\* the text stored for a secret id
SecretText(id) == Decode(Get(secrets[id]))

Returned == pc = "resolved"

\* C7 as stated: after _build_config_with_secrets returns, no settings value
\* has the secret-reference form, whatever the secret store holds.
NoReferenceFormRemains ==
    Returned =>
        \A p \in Positions(Get(config)) : ~IsSecretReference(ValueAt(Get(config), p))

\* C7 as amended: after _build_config_with_secrets returns, a settings value
\* has the secret-reference form only if it replaced a reference of the loaded
\* document and is the trimmed secret fetched for that reference (a secret
\* whose own text begins with "SECRET:").
OnlyFetchedSecretsKeepReferenceForm ==
    Returned =>
        \A p \in Positions(Get(config)) :
            LET before == ValueAt(Get(fs), p)
                after == ValueAt(Get(config), p)
            IN IsSecretReference(after) =>
                  /\ IsSecretReference(before)
                  /\ ReferenceId(before) \in DOMAIN secrets
                  /\ secrets[ReferenceId(before)] # None
                  /\ IsTrimOf(after.s, SecretText(ReferenceId(before)))
                  /\ StartsWith(Strip(SecretText(ReferenceId(before))), SECRET_PREFIX)

\* resolution returned a document in which a replaced value begins with
\* "SECRET:"
OnlyFetchedSecretsWitness ==
    /\ Returned
    /\ \E p \in Positions(Get(config)) :
          /\ IsSecretReference(ValueAt(Get(config), p))
          /\ ValueAt(Get(config), p) # ValueAt(Get(fs), p)

\* C8: the returned document is the loaded one with every settings value
\* that is a reference replaced by the trimmed secret of its identifier and
\* every other value kept; a document without the connectors section is
\* returned as loaded.
ResolutionMatchesReference ==
    Returned =>
        LET loaded == Get(fs)
            result == Get(config)
        IN
        /\ result.has_carConnectivity = loaded.has_carConnectivity
        /\ result.has_connectors = loaded.has_connectors
        /\ Len(result.connectors) = Len(loaded.connectors)
        /\ \A c \in DOMAIN loaded.connectors :
              /\ result.connectors[c].has_config = loaded.connectors[c].has_config
              /\ Len(result.connectors[c].config) = Len(loaded.connectors[c].config)
              /\ \A k \in DOMAIN loaded.connectors[c].config :
                    result.connectors[c].config[k].key = loaded.connectors[c].config[k].key
        /\ \A p \in Positions(loaded) :
              LET before == ValueAt(loaded, p)
                  after == ValueAt(result, p)
              IN IF before.isstr /\ StartsWith(before.s, SECRET_PREFIX)
                 THEN /\ after.isstr
                      /\ ReferenceId(before) \in DOMAIN secrets
                      /\ secrets[ReferenceId(before)] # None
                      /\ IsTrimOf(after.s, SecretText(ReferenceId(before)))
                 ELSE after = before
        /\ ~(loaded.has_carConnectivity /\ loaded.has_connectors) => result = loaded

\* a document with both references and a number was resolved, and the two
\* secrets differ
ResolutionMatchesReferenceWitness ==
    /\ Returned
    /\ Len(secret_calls) = 2
    /\ secret_calls[1].name # secret_calls[2].name
    /\ secrets[<<"a">>] # secrets[<<"a", ":", "b">>]
    /\ \E p \in Positions(Get(fs)) : ~ValueAt(Get(fs), p).isstr

\* C9: every row built, and every row submitted, carries the text of the one
\* time recorded before the loop.
TimestampUniformity ==
    /\ \A i \in DOMAIN rows_to_insert :
          /\ ingestion_time # None
          /\ rows_to_insert[i].ingestion_timestamp = [iso |-> Get(ingestion_time)]
          /\ \A j \in DOMAIN rows_to_insert :
                rows_to_insert[i].ingestion_timestamp =
                    rows_to_insert[j].ingestion_timestamp
    /\ \A c \in DOMAIN store_calls :
          \A i \in DOMAIN store_calls[c].rows :
              store_calls[c].rows[i].ingestion_timestamp = [iso |-> Get(ingestion_time)]

\* two rows were submitted and the clock advanced after the time was recorded
TimestampUniformityWitness ==
    /\ store_calls # <<>>
    /\ Len(store_calls[1].rows) = 2
    /\ clock > Get(ingestion_time)

\* C10: the row of a vehicle without electric drive has a null soc and is
\* built all the same; latitude and longitude are both null for a vehicle
\* without position and both taken from the position otherwise.
OptionalFieldNullability ==
    /\ \A i \in DOMAIN rows_to_insert :
          LET vehicle == Listed[i]
              row == rows_to_insert[i]
          IN
          /\ vehicle.edrive = None => row.soc = None
          /\ vehicle.position = None => row.latitude = None /\ row.longitude = None
          /\ vehicle.position # None =>
                /\ row.latitude = Some(Get(vehicle.position).latitude)
                /\ row.longitude = Some(Get(vehicle.position).longitude)
          /\ (row.latitude = None) <=> (row.longitude = None)
    /\ (pc = "loop" /\ vi <= Len(Listed)) => Len(rows_to_insert) = vi - 1
    /\ (exc # None /\ Get(exc).site = "loop") => LacksRequired(Listed[vi])

\* rows were built for a vehicle with neither electric drive nor position
\* and for one with both
OptionalFieldNullabilityWitness ==
    /\ Len(rows_to_insert) = 2
    /\ Listed[1].edrive = None
    /\ Listed[1].position = None
    /\ Listed[2].edrive # None
    /\ Listed[2].position # None
====
